---- MODULE Spec2Model ----
(***************************************************************************)
(* A model of server/models.py: the book-club schema (User, BookClub,      *)
(* Book, Genre, Membership, CurrentReading, Review), its field validators, *)
(* the password hashing glue, the declared table constraints and the       *)
(* serialize_rules.                                                        *)
(*                                                                         *)
(* The module holds one specification per part of the schema:              *)
(*   SpecFields     attribute assignment through the @validates hooks      *)
(*   SpecReview     Review rows: construction, flush, update, timestamps   *)
(*   SpecPassword   User.password_hash setter and User.authenticate        *)
(*   SpecUsers      concurrent sessions inserting and updating users       *)
(*   SpecStore      parent rows and the join tables with their constraints *)
(*   SpecSerialize  SerializerMixin.to_dict under the serialize_rules      *)
(***************************************************************************)
EXTENDS Integers, Sequences, FiniteSets, Bags, TLC

VARIABLES
    attrs,          \* SpecFields: the validated attributes of one object per class
    lastAssign,     \* SpecFields: the last attribute assignment and its outcome
    review,         \* SpecReview: the row of table reviews under study, or NoRow
    clock,          \* SpecReview: what datetime.datetime.now() returns
    lastReview,     \* SpecReview: the last Review operation and its outcome
    passwordHash,   \* SpecPassword: User._password_hash
    setPassword,    \* SpecPassword: history, the password of the last successful set
    bcryptRaises,   \* SpecPassword: whether the installed bcrypt refuses long passwords
    lastPw,         \* SpecPassword: the last password operation and its outcome
    users,          \* SpecUsers: the rows of table users
    nextUserId,     \* SpecUsers: the id the next INSERT into users gets
    session,        \* SpecUsers: per writer, the change its session holds unflushed
    lastUserOp,     \* SpecUsers: the last step of a writer and its outcome
    db,             \* SpecStore: the tables users, book_clubs, books and the join tables
    lastStore,      \* SpecStore: the last statement and its outcome
    graph,          \* SpecSerialize: the Membership, CurrentReading and Review loaded
    serStatus,      \* SpecSerialize: idle, running, done or RecursionError
    stack           \* SpecSerialize: the nested serialize calls, outermost first

fieldVars == <<attrs, lastAssign>>
reviewVars == <<review, clock, lastReview>>
pwVars == <<passwordHash, setPassword, bcryptRaises, lastPw>>
userVars == <<users, nextUserId, session, lastUserOp>>
vars == <<attrs, lastAssign, review, clock, lastReview,
          passwordHash, setPassword, bcryptRaises, lastPw,
          users, nextUserId, session, lastUserOp, db, lastStore,
          graph, serStatus, stack>>
storeVars == <<db, lastStore>>
serVars == <<graph, serStatus, stack>>

\* what the actions of each specification leave alone
exceptFields == <<reviewVars, pwVars, userVars, storeVars, serVars>>
exceptReview == <<fieldVars, pwVars, userVars, storeVars, serVars>>
exceptPassword == <<fieldVars, reviewVars, userVars, storeVars, serVars>>
exceptUsers == <<fieldVars, reviewVars, pwVars, storeVars, serVars>>
exceptStore == <<fieldVars, reviewVars, pwVars, userVars, serVars>>
exceptSerialize == <<fieldVars, reviewVars, pwVars, userVars, storeVars>>

(***************************************************************************)
(* Python values.  A str is a sequence of one-character strings, a number  *)
(* is the fraction n/d (d = 1: an int, d = 2: a float with a half), None   *)
(* is None.                                                                *)
(***************************************************************************)
PyNone == [t |-> "None"]
PyStr(s) == [t |-> "str", s |-> s]
PyNum(n, d) == [t |-> "num", n |-> n, d |-> d]
PyInt(n) == PyNum(n, 1)

IsNone(v) == v.t = "None"
IsStr(v) == v.t = "str"
IsNum(v) == v.t = "num"
\* an integral number: what an Integer column is declared to hold
IsInteger(v) == IsNum(v) /\ v.n % v.d = 0
\* a <= v <= b for a number v = n/d, d > 0
NumBetween(a, v, b) == a * v.d <= v.n /\ v.n <= b * v.d

\* Python's len(s) and  c in s  on a str
PyLen(v) == Len(v.s)
PyContains(c, v) == \E i \in 1..Len(v.s) : v.s[i] = c

\* the outcome of a validator: the value it returns, or the exception it raises
Returns(v) == [ok |-> TRUE, value |-> v]
Raises(e) == [ok |-> FALSE, error |-> e]

(***************************************************************************)
(* The @validates hooks.                                                   *)
(***************************************************************************)
\* assert '@' in address  ('@' in None is a TypeError)
validate_email(address) ==
    IF IsNone(address) THEN Raises("TypeError")
    ELSE IF PyContains("@", address) THEN Returns(address)
    ELSE Raises("AssertionError")

\* assert x is not None and len(x) > 0
NonEmptyHook(x) ==
    IF ~IsNone(x) /\ PyLen(x) > 0 THEN Returns(x) ELSE Raises("AssertionError")

validate_username(username) == NonEmptyHook(username)
BookClub_validate_name(name) == NonEmptyHook(name)
validate_title(title) == NonEmptyHook(title)
validate_author(author) == NonEmptyHook(author)
Genre_validate_name(name) == NonEmptyHook(name)

\* assert 1 <= rating <= 5  (1 <= None is a TypeError; a float compares fine)
validate_rating(rating) ==
    IF IsNone(rating) THEN Raises("TypeError")
    ELSE IF NumBetween(1, rating, 5) THEN Returns(rating)
    ELSE Raises("AssertionError")

(***************************************************************************)
(* The values the callers assign.                                          *)
(***************************************************************************)
TextValues ==
    { PyNone, PyStr(<<>>), PyStr(<<"a", "l">>), PyStr(<<"a", "@", "x">>) }
RatingValues ==
    { PyNone, PyInt(0), PyInt(1), PyInt(5), PyInt(6), PyNum(7, 2), PyNum(11, 2) }

ValidatedFields ==
    { "User.email", "User.username", "BookClub.name", "Book.title",
      "Book.author", "Genre.name", "Review.rating" }

\* the hook SQLAlchemy calls when `field` is assigned
Hook(field, v) ==
    CASE field = "User.email" -> validate_email(v)
      [] field = "User.username" -> validate_username(v)
      [] field = "BookClub.name" -> BookClub_validate_name(v)
      [] field = "Book.title" -> validate_title(v)
      [] field = "Book.author" -> validate_author(v)
      [] field = "Genre.name" -> Genre_validate_name(v)
      [] field = "Review.rating" -> validate_rating(v)

(***************************************************************************)
(* SpecFields: one object of each class; every attribute starts unset.     *)
(* Assigning a validated attribute calls its hook first; the attribute     *)
(* takes the returned value, or keeps its value when the hook raises.      *)
(***************************************************************************)
NoAssign == [field |-> "", value |-> PyNone, outcome |-> Returns(PyNone)]

InitFields ==
    /\ attrs = [f \in ValidatedFields |-> PyNone]
    /\ lastAssign = NoAssign

SetAttr(field, v) ==
    LET out == Hook(field, v) IN
    /\ attrs' = IF out.ok THEN [attrs EXCEPT ![field] = out.value] ELSE attrs
    /\ lastAssign' = [field |-> field, value |-> v, outcome |-> out]
    /\ UNCHANGED exceptFields

SetUserEmail == \E v \in TextValues : SetAttr("User.email", v)
SetUserUsername == \E v \in TextValues : SetAttr("User.username", v)
SetBookClubName == \E v \in TextValues : SetAttr("BookClub.name", v)
SetBookTitle == \E v \in TextValues : SetAttr("Book.title", v)
SetBookAuthor == \E v \in TextValues : SetAttr("Book.author", v)
SetGenreName == \E v \in TextValues : SetAttr("Genre.name", v)
SetReviewRating == \E v \in RatingValues : SetAttr("Review.rating", v)

NextFields ==
    \/ SetUserEmail
    \/ SetUserUsername
    \/ SetBookClubName
    \/ SetBookTitle
    \/ SetBookAuthor
    \/ SetGenreName
    \/ SetReviewRating

(***************************************************************************)
(* SpecReview: one Review, from the constructor and session.add/commit to *)
(* later assignments and commits.  The table has no constraint between     *)
(* rows, so one row is followed.  Columns 164-170: user_id, book_id,       *)
(* book_club_id, content and rating are nullable=False; created_at and     *)
(* updated_at take datetime.now() when the INSERT gives no value, and      *)
(* updated_at takes it again on every UPDATE that does not set it.         *)
(***************************************************************************)
MaxClock == 3
\* the most the clock advances between the two default lambdas of one INSERT
MaxGap == 1

NoRow == [t |-> "NoRow"]
IsRow(r) == r.t = "Review"

ContentValues == { PyNone, PyStr(<<>>), PyStr(<<"o", "k">>) }
RefValues == { PyNone, PyInt(1) }
Times == 0..MaxClock

\* content declared nullable
ReviewNotNullMutant == { "user_id", "book_id", "book_club_id", "rating" }
\* nullable=False
ReviewNotNull == { "user_id", "book_id", "book_club_id", "content", "rating" }
\* the INSERT or UPDATE of `row` passes the NOT NULL constraints
ReviewFlushOk(row) == \A c \in ReviewNotNull : ~IsNone(row[c])

\* default=lambda: now() on created_at, then on updated_at, `gap` later
ReviewInsertDefaults(row, now, gap) ==
    [row EXCEPT !.created_at = now, !.updated_at = now + gap]
\* updated_at declared without onupdate
ReviewOnUpdateMutant(row, now) == row
\* onupdate=lambda: now() on updated_at
ReviewOnUpdate(row, now) == [row EXCEPT !.updated_at = now]

ReviewOp(op, rating, content, outcome) ==
    [op |-> op, rating |-> rating, content |-> content, outcome |-> outcome]

InitReview ==
    /\ review = NoRow
    /\ clock = 0
    /\ lastReview = ReviewOp("none", PyNone, PyNone, "ok")

\* Review(user_id=u, book_id=b, book_club_id=c, content=content, rating=rating);
\* db.session.add(r); db.session.commit()
CreateReview ==
    \E u \in RefValues, b \in RefValues, c \in RefValues,
       content \in ContentValues, rating \in RatingValues, gap \in 0..MaxGap :
        LET out == validate_rating(rating)
            row == [t |-> "Review", user_id |-> u, book_id |-> b, book_club_id |-> c,
                    content |-> content, rating |-> rating,
                    created_at |-> 0, updated_at |-> 0]
        IN
        /\ review = NoRow
        /\ clock + gap <= MaxClock
        /\ UNCHANGED exceptReview
        /\ IF ~out.ok
           THEN /\ lastReview' = ReviewOp("create", rating, content, out.error)
                /\ UNCHANGED <<review, clock>>
           ELSE IF ~ReviewFlushOk(row)
           THEN /\ lastReview' = ReviewOp("create", rating, content, "IntegrityError")
                /\ UNCHANGED <<review, clock>>
           ELSE /\ review' = ReviewInsertDefaults(row, clock, gap)
                /\ clock' = clock + gap
                /\ lastReview' = ReviewOp("create", rating, content, "ok")

\* the commit after an assignment: an UPDATE when the session sees a change;
\* an assignment of the value the attribute already holds is seen as a change
\* only when the attribute was expired and not loaded
CommitReview(op, new, rating, content) ==
    \E emitted \in BOOLEAN :
        /\ (new # review) => emitted
        /\ IF ~emitted
           THEN /\ lastReview' = ReviewOp(op, rating, content, "ok")
                /\ UNCHANGED <<review, clock>>
           ELSE IF ~ReviewFlushOk(new)
           THEN /\ lastReview' = ReviewOp(op, rating, content, "IntegrityError")
                /\ UNCHANGED <<review, clock>>
           ELSE /\ review' = ReviewOnUpdate(new, clock)
                /\ lastReview' = ReviewOp(op, rating, content, "ok")
                /\ UNCHANGED clock

\* r.rating = rating; db.session.commit()
UpdateRating ==
    \E rating \in RatingValues :
        LET out == validate_rating(rating) IN
        /\ IsRow(review)
        /\ UNCHANGED exceptReview
        /\ IF ~out.ok
           THEN /\ lastReview' = ReviewOp("set_rating", rating, PyNone, out.error)
                /\ UNCHANGED <<review, clock>>
           ELSE CommitReview("set_rating", [review EXCEPT !.rating = out.value],
                             rating, PyNone)

\* r.content = content; db.session.commit()
UpdateContent ==
    \E content \in ContentValues :
        /\ IsRow(review)
        /\ UNCHANGED exceptReview
        /\ CommitReview("set_content", [review EXCEPT !.content = content],
                        PyNone, content)

\* r.created_at = t; db.session.commit(): updated_at is not set, so onupdate fires
AssignCreatedAt ==
    \E t \in Times :
        /\ IsRow(review)
        /\ t # review.created_at
        /\ review' = ReviewOnUpdate([review EXCEPT !.created_at = t], clock)
        /\ lastReview' = ReviewOp("set_created_at", PyNone, PyNone, "ok")
        /\ UNCHANGED <<clock, exceptReview>>

\* r.updated_at = t; db.session.commit(): the UPDATE sets updated_at itself
AssignUpdatedAt ==
    \E t \in Times :
        /\ IsRow(review)
        /\ t # review.updated_at
        /\ review' = [review EXCEPT !.updated_at = t]
        /\ lastReview' = ReviewOp("set_updated_at", PyNone, PyNone, "ok")
        /\ UNCHANGED <<clock, exceptReview>>

\* time passes
Tick ==
    /\ clock < MaxClock
    /\ clock' = clock + 1
    /\ lastReview' = ReviewOp("tick", PyNone, PyNone, "ok")
    /\ UNCHANGED <<review, exceptReview>>

NextReview ==
    \/ CreateReview
    \/ UpdateRating
    \/ UpdateContent
    \/ AssignCreatedAt
    \/ AssignUpdatedAt
    \/ Tick


(***************************************************************************)
(* The rules of the schema, as its description states them.                *)
(***************************************************************************)
\* Review.rating: an integer in [1,5]
RatingRule(v) == IsInteger(v) /\ NumBetween(1, v, 5)
\* User.email: contains '@'
EmailRule(v) == IsStr(v) /\ PyContains("@", v)
\* username, name, title, author: non-null and non-empty
NonEmptyRule(v) == IsStr(v) /\ PyLen(v) > 0

FieldRule(field, v) ==
    CASE field = "User.email" -> EmailRule(v)
      [] field = "Review.rating" -> RatingRule(v)
      [] OTHER -> NonEmptyRule(v)

(***************************************************************************)
(* C8.  Every assignment of a validated field is validated: an assignment  *)
(* of a value that breaks the field's rule raises and leaves the field as  *)
(* it was, so every validated field is unset or holds a value satisfying   *)
(* its rule.                                                               *)
(***************************************************************************)
C8_FieldsHoldValidValues ==
    /\ [](\A f \in ValidatedFields : IsNone(attrs[f]) \/ FieldRule(f, attrs[f]))
    /\ [][ (lastAssign'.field # "" /\ ~FieldRule(lastAssign'.field, lastAssign'.value))
              => (~lastAssign'.outcome.ok /\ attrs' = attrs) ]_vars

(***************************************************************************)
(* C1.  Assigning r to Review.rating, or creating a Review with rating r,  *)
(* passes the rating check if and only if r is an integer with             *)
(* 1 <= r <= 5, and a stored Review.rating is an integer in 1..5.          *)
(***************************************************************************)
RatingRejected == lastReview.outcome \in { "AssertionError", "TypeError" }

C1_RatingIntegerInRange ==
    /\ lastReview.op \in { "create", "set_rating" }
           => /\ lastReview.outcome = "ok" => RatingRule(lastReview.rating)
              /\ RatingRejected => ~RatingRule(lastReview.rating)
              /\ RatingRule(lastReview.rating) => ~RatingRejected
    /\ IsRow(review) => RatingRule(review.rating)

(***************************************************************************)
(* C9.  As claimed: Review.content is required and non-empty; creating a   *)
(* Review with empty content, or assigning empty content, is rejected, and *)
(* no persisted Review has empty content.                                  *)
(***************************************************************************)
ContentOp == lastReview.op \in { "create", "set_content" }

C9_ContentNonEmpty ==
    /\ IsRow(review) => NonEmptyRule(review.content)
    /\ (ContentOp /\ lastReview.content = PyStr(<<>>)) => lastReview.outcome # "ok"

(***************************************************************************)
(* C9, amended.  Review.content is required: creating a Review with        *)
(* content None, or assigning None and committing, is rejected and leaves  *)
(* the row as it was, so no persisted Review has content None.  The empty  *)
(* string is a value like any other: assigning it succeeds.                *)
(***************************************************************************)
C9_ContentNotNull ==
    /\ IsRow(review) => IsStr(review.content)
    /\ (ContentOp /\ IsNone(lastReview.content)) => lastReview.outcome # "ok"
    /\ (lastReview.op = "set_content" /\ lastReview.content = PyStr(<<>>))
           => (lastReview.outcome = "ok" /\ review.content = PyStr(<<>>))

\* a persisted Review whose content was just assigned None, and refused
C9_Witness ==
    /\ IsRow(review)
    /\ lastReview.op = "set_content"
    /\ IsNone(lastReview.content)
    /\ lastReview.outcome = "IntegrityError"

(***************************************************************************)
(* C10.  As claimed: created_at and updated_at are both set to the         *)
(* creation time; every later field mutation sets updated_at to the time   *)
(* of the mutation and leaves created_at unchanged, so updated_at >=       *)
(* created_at always and created_at never changes after creation.          *)
(***************************************************************************)
C10_TimestampsAsClaimed ==
    [][ /\ (lastReview'.op = "create" /\ lastReview'.outcome = "ok")
               => (review'.created_at = clock' /\ review'.updated_at = clock')
        /\ (IsRow(review) /\ review' # review)
               => (review'.updated_at = clock /\ review'.created_at = review.created_at)
        /\ IsRow(review') => review'.updated_at >= review'.created_at
      ]_vars

(***************************************************************************)
(* C10, amended.  Under a monotonically advancing clock, an INSERT of a    *)
(* Review reads the clock twice, for created_at and then for updated_at,   *)
(* so created_at <= updated_at, both within the insert.  Every later       *)
(* commit that changes content or rating sets updated_at to the clock at   *)
(* that commit and leaves created_at unchanged.  Every operation other     *)
(* than an explicit assignment of created_at or updated_at leaves          *)
(* created_at unchanged and keeps created_at <= updated_at <= now.         *)
(***************************************************************************)
TimestampsOrdered(r, now) == r.created_at <= r.updated_at /\ r.updated_at <= now
TimestampOps == { "set_created_at", "set_updated_at" }

C10_Timestamps ==
    [][ /\ (lastReview'.op = "create" /\ lastReview'.outcome = "ok")
               => /\ review'.created_at = clock
                  /\ review'.updated_at = clock'
                  /\ TimestampsOrdered(review', clock')
        /\ (IsRow(review) /\ lastReview'.op \in { "set_rating", "set_content" }
                /\ (review'.rating # review.rating \/ review'.content # review.content))
               => (review'.updated_at = clock /\ review'.created_at = review.created_at)
        /\ (IsRow(review) /\ lastReview'.op \notin TimestampOps)
               => /\ review'.created_at = review.created_at
                  /\ TimestampsOrdered(review, clock) => TimestampsOrdered(review', clock')
      ]_vars

\* a Review created at one time and changed at a later one
C10_Witness ==
    /\ IsRow(review)
    /\ lastReview.op = "set_content"
    /\ lastReview.outcome = "ok"
    /\ review.created_at < review.updated_at
    /\ review.updated_at = clock

(***************************************************************************)
(* SpecPassword: the password_hash setter and authenticate of one User.    *)
(* bcrypt.generate_password_hash draws a salt and hashes the password with *)
(* it; bcrypt reads at most the first 72 bytes of a password (releases     *)
(* before 5.0 drop the rest, later ones raise ValueError on a longer one). *)
(* The digest is an ideal one-way function of the salt and of the bytes    *)
(* bcrypt reads: two digests are equal exactly when those are.             *)
(***************************************************************************)
MinPasswordLen == 6
BcryptMaxBytes == 72
NumSalts == 2

Salts == 1..NumSalts
Pad(n) == [i \in 1..n |-> "a"]
Min(a, b) == IF a <= b THEN a ELSE b

\* the passwords the callers try: short ones, ones of 6 and 7 characters,
\* and ones at and over the length bcrypt reads
Passwords ==
    { Pad(0), Pad(MinPasswordLen - 1), Pad(MinPasswordLen - 2) \o <<"b">>,
      Pad(MinPasswordLen), Pad(MinPasswordLen - 1) \o <<"b">>, Pad(MinPasswordLen + 1),
      Pad(BcryptMaxBytes), Pad(BcryptMaxBytes) \o <<"b">>, Pad(BcryptMaxBytes) \o <<"c">> }

\* the bytes of `password` bcrypt hashes
BcryptKey(password) == SubSeq(password, 1, Min(Len(password), BcryptMaxBytes))
BcryptTooLong(password) == bcryptRaises /\ Len(password) > BcryptMaxBytes
\* bcrypt.hashpw(password, salt)
hashpw(password, salt) == [t |-> "bcrypt", salt |-> salt, digest |-> BcryptKey(password)]
\* bcrypt.check_password_hash(pw_hash, password): hash again with pw_hash's salt, compare
check_password_hash(pw_hash, password) == hashpw(password, pw_hash.salt) = pw_hash

\* the check off by one
PasswordTooShortMutant(password) == Len(password) < MinPasswordLen - 1
\* if len(password) < 6: raise ValueError(...)
PasswordTooShort(password) == Len(password) < MinPasswordLen

NoPassword == <<"unset">>
PwOp(op, password, outcome) == [op |-> op, password |-> password, outcome |-> outcome]

\* `builds`: the behaviours of the bcrypt releases that may be installed
InitPassword(builds) ==
    /\ passwordHash = PyNone
    /\ setPassword = NoPassword
    /\ bcryptRaises \in builds
    /\ lastPw = PwOp("none", <<>>, "ok")

\* user.password_hash = password
SetPasswordHash ==
    \E password \in Passwords, salt \in Salts :
        /\ UNCHANGED <<bcryptRaises, exceptPassword>>
        /\ IF PasswordTooShort(password) \/ BcryptTooLong(password)
           THEN /\ lastPw' = PwOp("set", password, "ValueError")
                /\ UNCHANGED <<passwordHash, setPassword>>
           ELSE /\ passwordHash' = hashpw(password, salt)
                /\ setPassword' = password
                /\ lastPw' = PwOp("set", password, "ok")

\* user.authenticate(password)
Authenticate ==
    \E password \in Passwords :
        /\ UNCHANGED <<passwordHash, setPassword, bcryptRaises, exceptPassword>>
        /\ lastPw' =
              PwOp("authenticate", password,
                   IF IsNone(passwordHash) THEN "TypeError"
                   ELSE IF BcryptTooLong(password) THEN "ValueError"
                   ELSE IF check_password_hash(passwordHash, password) THEN "True"
                   ELSE "False")

NextPassword ==
    \/ SetPasswordHash
    \/ Authenticate

(***************************************************************************)
(* C2.  Setting a password of fewer than 6 characters fails with a value   *)
(* error and leaves the stored hash exactly as it was, unset or set.       *)
(***************************************************************************)
C2_ShortPasswordRejected ==
    [][ (lastPw'.op = "set" /\ Len(lastPw'.password) < 6)
            => (lastPw'.outcome = "ValueError" /\ passwordHash' = passwordHash) ]_vars

\* a short password was just refused by a User whose hash was set before
C2_Witness ==
    /\ lastPw.op = "set"
    /\ Len(lastPw.password) = 5
    /\ lastPw.outcome = "ValueError"
    /\ ~IsNone(passwordHash)
    /\ passwordHash.digest = setPassword

(***************************************************************************)
(* C3.  Setting a password of 6 characters or more succeeds, and after any *)
(* sequence of successful and failed sets authenticate returns true for    *)
(* the most recently successfully set password and false for every other.  *)
(***************************************************************************)
C3_AuthenticatesExactlyTheSetPassword ==
    /\ (lastPw.op = "set" /\ Len(lastPw.password) >= 6) => lastPw.outcome = "ok"
    /\ (lastPw.op = "authenticate" /\ setPassword # NoPassword)
           => lastPw.outcome = (IF lastPw.password = setPassword THEN "True" ELSE "False")

(***************************************************************************)
(* SpecUsers: table users under concurrent writers.  Each writer has a     *)
(* session: it builds a User or assigns a column of a loaded one (the      *)
(* hooks run then), and later commits.  The commit is one statement of the *)
(* store, which checks the NOT NULL and UNIQUE constraints the columns     *)
(* declare and either applies the statement or raises IntegrityError and   *)
(* rolls the session back.                                                 *)
(***************************************************************************)
MaxUsers == 3

Writers == { "w1", "w2" }
UserNames == { PyStr(<<>>), PyStr(<<"a", "l">>), PyStr(<<"b", "o">>) }
Emails == { PyStr(<<"a", "l">>), PyStr(<<"a", "@", "x">>), PyStr(<<"b", "@", "x">>) }

\* email declared without unique=True
UserUniqueMutant == { "username" }
\* unique=True
UserUnique == { "username", "email" }
\* nullable=False
UserNotNull == { "username", "email", "_password_hash" }

\* the rows of `rows` other than row `id` that hold `row`'s value in a unique column
UserConflicts(rows, row) ==
    { r \in rows : r.id # row.id /\ \E c \in UserUnique : r[c] = row[c] }
UserNotNullOk(row) == \A c \in UserNotNull : ~IsNone(row[c])
\* the INSERT or UPDATE leaving `row` in the table passes the constraints
UserFlushOk(rows, row) == UserNotNullOk(row) /\ UserConflicts(rows, row) = {}

Idle == [kind |-> "idle"]
UserOp(op, w, row, outcome) == [op |-> op, writer |-> w, row |-> row, outcome |-> outcome]
NoUser == [id |-> 0, username |-> PyNone, email |-> PyNone, _password_hash |-> PyNone]

InitUsers ==
    /\ users = {}
    /\ nextUserId = 1
    /\ session = [w \in Writers |-> Idle]
    /\ lastUserOp = UserOp("none", "", NoUser, "ok")

\* u = User(username=..., email=...); u.password_hash = ...; db.session.add(u)
NewUser(w) ==
    \E username \in UserNames, email \in Emails, hashed \in BOOLEAN :
        LET u == validate_username(username)
            e == validate_email(email)
            row == [id |-> 0, username |-> username, email |-> email,
                    _password_hash |-> IF hashed THEN PyStr(<<"$">>) ELSE PyNone]
        IN
        /\ session[w] = Idle
        /\ UNCHANGED <<users, nextUserId, exceptUsers>>
        /\ IF u.ok /\ e.ok
           THEN /\ session' = [session EXCEPT ![w] = [kind |-> "insert", row |-> row]]
                /\ lastUserOp' = UserOp("new", w, NoUser, "ok")
           ELSE /\ lastUserOp' = UserOp("new", w, NoUser, "AssertionError")
                /\ UNCHANGED session

\* u = User.query.get(id); u.username = v  or  u.email = v
EditUser(w) ==
    \E r \in users, col \in UserUnique :
      \E v \in IF col = "username" THEN UserNames ELSE Emails :
        LET out == IF col = "username" THEN validate_username(v) ELSE validate_email(v) IN
        /\ session[w] = Idle
        /\ UNCHANGED <<users, nextUserId, exceptUsers>>
        /\ IF out.ok
           THEN /\ session' = [session EXCEPT ![w] =
                                  [kind |-> "update", id |-> r.id, col |-> col, value |-> v]]
                /\ lastUserOp' = UserOp("edit", w, NoUser, "ok")
           ELSE /\ lastUserOp' = UserOp("edit", w, NoUser, "AssertionError")
                /\ UNCHANGED session

\* db.session.commit() of a session holding a new User: INSERT INTO users
CommitInsert(w) ==
    /\ session[w].kind = "insert"
    /\ nextUserId <= MaxUsers
    /\ session' = [session EXCEPT ![w] = Idle]
    /\ UNCHANGED exceptUsers
    /\ LET row == [session[w].row EXCEPT !.id = nextUserId] IN
       IF UserFlushOk(users, row)
       THEN /\ users' = users \cup { row }
            /\ nextUserId' = nextUserId + 1
            /\ lastUserOp' = UserOp("insert", w, row, "ok")
       ELSE /\ lastUserOp' = UserOp("insert", w, row, "IntegrityError")
            /\ UNCHANGED <<users, nextUserId>>

\* db.session.commit() of a session holding an edited User:
\* UPDATE users SET col = value WHERE id = id
CommitUpdate(w) ==
    /\ session[w].kind = "update"
    /\ session' = [session EXCEPT ![w] = Idle]
    /\ UNCHANGED <<nextUserId, exceptUsers>>
    /\ LET old == CHOOSE r \in users : r.id = session[w].id
           row == [old EXCEPT ![session[w].col] = session[w].value]
       IN
       IF UserFlushOk(users, row)
       THEN /\ users' = (users \ { old }) \cup { row }
            /\ lastUserOp' = UserOp("update", w, row, "ok")
       ELSE /\ lastUserOp' = UserOp("update", w, row, "IntegrityError")
            /\ UNCHANGED users

NextUsers ==
    \/ \E w \in Writers : NewUser(w)
    \/ \E w \in Writers : EditUser(w)
    \/ \E w \in Writers : CommitInsert(w)
    \/ \E w \in Writers : CommitUpdate(w)

(***************************************************************************)
(* C4.  Under any interleaving of User creations and username or email     *)
(* updates by concurrent writers, no two persisted Users share a username  *)
(* and no two share an email; a creation that would duplicate an existing  *)
(* username or email fails with an integrity error and leaves the          *)
(* persisted Users unchanged.                                              *)
(***************************************************************************)
Duplicates(rows, row) ==
    \E r \in rows : r.id # row.id /\ (r.username = row.username \/ r.email = row.email)

C4_UsernameAndEmailUnique ==
    /\ [](\A r1 \in users : ~Duplicates(users, r1))
    /\ [][ (lastUserOp'.op = "insert" /\ Duplicates(users, lastUserOp'.row))
              => (lastUserOp'.outcome = "IntegrityError" /\ users' = users) ]_vars

\* a writer's INSERT was refused for an email a concurrent writer committed first
C4_Witness ==
    /\ lastUserOp.op = "insert"
    /\ lastUserOp.outcome = "IntegrityError"
    /\ \E r \in users : r.email = lastUserOp.row.email /\ r.username # lastUserOp.row.username
    /\ Cardinality(users) = 2

(***************************************************************************)
(* SpecStore: the rows of users, book_clubs and books, and of the join     *)
(* tables memberships and current_readings, by their keys.  A parent row   *)
(* is its id (a book club: its id and created_by); a join table is the bag *)
(* of its rows' foreign keys, since neither table declares a constraint    *)
(* over them beyond NOT NULL and FOREIGN KEY.  Every statement is checked  *)
(* against the constraints the columns declare.  Deleting a parent through *)
(* the session first sets the foreign key of its related rows to NULL,     *)
(* which is what relationship() does without a delete cascade.             *)
(* Genres and reviews are left out: no join row refers to them.            *)
(***************************************************************************)
MaxJoinRows == 2

StoreUserIds == { 1, 2 }
BookClubIds == { 1, 2 }
BookIds == { 1, 2 }
Ref(i) == PyInt(i)
Refs(ids) == { PyNone } \cup { Ref(i) : i \in ids }

\* ForeignKey('users.id'), ForeignKey('book_clubs.id'), ForeignKey('books.id')
MembershipForeignKeys == [user_id |-> "users", book_club_id |-> "book_clubs"]
CurrentReadingForeignKeys == [book_club_id |-> "book_clubs", book_id |-> "books"]
BookClubForeignKeys == [created_by |-> "users"]
\* user_id declared nullable
MembershipNotNullMutant == { "book_club_id" }
\* nullable=False
MembershipNotNull == { "user_id", "book_club_id" }
CurrentReadingNotNull == { "book_club_id", "book_id" }
BookClubNotNull == { "created_by" }
\* the store checks FOREIGN KEY constraints
StoreEnforcesForeignKeys == TRUE

\* the ids of the rows of the parent table `table`
TableIds(d, table) ==
    CASE table = "users" -> d.users
      [] table = "book_clubs" -> { c.id : c \in d.book_clubs }
      [] table = "books" -> d.books

\* row satisfies NOT NULL on `notnull` and, in database d, FOREIGN KEY on `fks`
RowOk(d, row, notnull, fks) ==
    /\ \A c \in notnull : ~IsNone(row[c])
    /\ StoreEnforcesForeignKeys =>
           \A c \in DOMAIN fks : IsNone(row[c]) \/ row[c].n \in TableIds(d, fks[c])

\* every row of database d satisfies its table's constraints
StoreOk(d) ==
    /\ \A m \in BagToSet(d.memberships) :
           RowOk(d, m, MembershipNotNull, MembershipForeignKeys)
    /\ \A r \in BagToSet(d.current_readings) :
           RowOk(d, r, CurrentReadingNotNull, CurrentReadingForeignKeys)
    /\ \A c \in d.book_clubs : RowOk(d, c, BookClubNotNull, BookClubForeignKeys)

\* bag B with column col of its rows that refer to id set to NULL
RECURSIVE NullifyRows(_, _, _, _)
NullifyRows(B, rows, col, id) ==
    IF rows = {} THEN EmptyBag
    ELSE LET r == CHOOSE x \in rows : TRUE
             r2 == IF r[col] = Ref(id) THEN [r EXCEPT ![col] = PyNone] ELSE r
             one == [x \in { r2 } |-> CopiesIn(r, B)]
         IN  one (+) NullifyRows(B, rows \ { r }, col, id)
Nullify(B, col, id) == NullifyRows(B, BagToSet(B), col, id)

\* the statements of one flush are applied when the rows they leave satisfy
\* the constraints; otherwise IntegrityError, and the rollback leaves d
Flush(op, d2) ==
    /\ UNCHANGED exceptStore
    /\ IF StoreOk(d2)
       THEN /\ db' = d2
            /\ lastStore' = [op |-> op, outcome |-> "ok"]
       ELSE /\ lastStore' = [op |-> op, outcome |-> "IntegrityError"]
            /\ UNCHANGED db

InitStore ==
    /\ db = [users |-> {}, book_clubs |-> {}, books |-> {},
             memberships |-> EmptyBag, current_readings |-> EmptyBag]
    /\ lastStore = [op |-> "none", outcome |-> "ok"]

\* db.session.add(User(...)); commit
InsertUser ==
    \E id \in StoreUserIds \ db.users :
        Flush("insert_user", [db EXCEPT !.users = @ \cup { id }])

\* db.session.add(Book(...)); commit
InsertBook ==
    \E id \in BookIds \ db.books :
        Flush("insert_book", [db EXCEPT !.books = @ \cup { id }])

\* db.session.add(BookClub(name=..., created_by=u)); commit
InsertBookClub ==
    \E id \in BookClubIds \ TableIds(db, "book_clubs"), u \in Refs(StoreUserIds) :
        Flush("insert_book_club",
              [db EXCEPT !.book_clubs = @ \cup { [id |-> id, created_by |-> u] }])

\* db.session.add(Membership(user_id=u, book_club_id=c)); commit
InsertMembership ==
    \E u \in Refs(StoreUserIds), c \in Refs(BookClubIds) :
        /\ BagCardinality(db.memberships) < MaxJoinRows
        /\ Flush("insert_membership",
                 [db EXCEPT !.memberships =
                      @ (+) SetToBag({ [user_id |-> u, book_club_id |-> c] })])

\* db.session.add(CurrentReading(book_club_id=c, book_id=b)); commit
InsertCurrentReading ==
    \E c \in Refs(BookClubIds), b \in Refs(BookIds) :
        /\ BagCardinality(db.current_readings) < MaxJoinRows
        /\ Flush("insert_current_reading",
                 [db EXCEPT !.current_readings =
                      @ (+) SetToBag({ [book_club_id |-> c, book_id |-> b] })])

\* club.current_reading = CurrentReading(book_id=b); commit: the reading the
\* club had is detached, its book_club_id set to NULL
AssignCurrentReading ==
    \E c \in TableIds(db, "book_clubs"), b \in Refs(BookIds) :
        /\ BagCardinality(db.current_readings) < MaxJoinRows
        /\ Flush("assign_current_reading",
                 [db EXCEPT !.current_readings =
                      Nullify(@, "book_club_id", c)
                          (+) SetToBag({ [book_club_id |-> Ref(c), book_id |-> b] })])

\* db.session.delete(user); commit
DeleteUser ==
    \E id \in db.users :
        Flush("delete_user",
              [db EXCEPT !.users = @ \ { id },
                         !.memberships = Nullify(@, "user_id", id),
                         !.book_clubs = { IF c.created_by = Ref(id)
                                          THEN [c EXCEPT !.created_by = PyNone]
                                          ELSE c : c \in @ }])

\* db.session.delete(club); commit
DeleteBookClub ==
    \E c \in db.book_clubs :
        Flush("delete_book_club",
              [db EXCEPT !.book_clubs = @ \ { c },
                         !.memberships = Nullify(@, "book_club_id", c.id),
                         !.current_readings = Nullify(@, "book_club_id", c.id)])

\* db.session.delete(book); commit
DeleteBook ==
    \E id \in db.books :
        Flush("delete_book",
              [db EXCEPT !.books = @ \ { id },
                         !.current_readings = Nullify(@, "book_id", id)])

\* Model.query.filter_by(id=id).delete(); commit: a DELETE statement alone,
\* the session touches no related row
BulkDelete ==
    \/ \E id \in db.users :
           Flush("bulk_delete_user", [db EXCEPT !.users = @ \ { id }])
    \/ \E c \in db.book_clubs :
           Flush("bulk_delete_book_club", [db EXCEPT !.book_clubs = @ \ { c }])
    \/ \E id \in db.books :
           Flush("bulk_delete_book", [db EXCEPT !.books = @ \ { id }])

\* db.session.delete(membership); commit
DeleteMembership ==
    \E m \in BagToSet(db.memberships) :
        Flush("delete_membership", [db EXCEPT !.memberships = @ (-) SetToBag({ m })])

\* db.session.delete(current_reading); commit
DeleteCurrentReading ==
    \E r \in BagToSet(db.current_readings) :
        Flush("delete_current_reading",
              [db EXCEPT !.current_readings = @ (-) SetToBag({ r })])

NextStore ==
    \/ InsertUser
    \/ InsertBook
    \/ InsertBookClub
    \/ InsertMembership
    \/ InsertCurrentReading
    \/ AssignCurrentReading
    \/ DeleteUser
    \/ DeleteBookClub
    \/ DeleteBook
    \/ BulkDelete
    \/ DeleteMembership
    \/ DeleteCurrentReading

(***************************************************************************)
(* C5.  Each BookClub is referred to by at most one CurrentReading row:    *)
(* creating a second CurrentReading for a club that has one replaces the   *)
(* first or is rejected, and never leaves two rows for the club.           *)
(***************************************************************************)
ReadingsOf(c) ==
    BagCardinality([r \in { x \in BagToSet(db.current_readings) : x.book_club_id = Ref(c) }
                       |-> CopiesIn(r, db.current_readings)])

C5_AtMostOneCurrentReading == \A c \in BookClubIds : ReadingsOf(c) <= 1

(***************************************************************************)
(* C7.  Every Membership refers to a User and a BookClub that exist and    *)
(* every CurrentReading to a BookClub and a Book that exist, after any     *)
(* sequence of creations and deletions: no statement, the deletion of a    *)
(* User, BookClub or Book included, leaves an orphaned join row.           *)
(***************************************************************************)
Exists(ref, ids) == IsNum(ref) /\ ref.n \in ids

C7_NoOrphanedJoinRows ==
    /\ \A m \in BagToSet(db.memberships) :
           /\ Exists(m.user_id, db.users)
           /\ Exists(m.book_club_id, TableIds(db, "book_clubs"))
    /\ \A r \in BagToSet(db.current_readings) :
           /\ Exists(r.book_club_id, TableIds(db, "book_clubs"))
           /\ Exists(r.book_id, db.books)

\* the deletion of a User who still has a Membership was just refused
C7_Witness ==
    /\ lastStore = [op |-> "delete_user", outcome |-> "IntegrityError"]
    /\ \E m \in BagToSet(db.memberships) : Exists(m.user_id, db.users)
    /\ db.current_readings # EmptyBag

(***************************************************************************)
(* SpecSerialize: SerializerMixin.to_dict on the object graph.  A User U   *)
(* created BookClub C; Book B has Genre G; a Membership M of U in C, a     *)
(* CurrentReading CR of B by C and a Review R by U of B in C may exist.    *)
(* The serializer keeps a set of rules (paths of keys to leave out).       *)
(* Serializing a model adds the serialize_rules of its class, then walks   *)
(* every attribute whose key is not left out; the value of key k is        *)
(* serialized under the rules that start with k, cut by that key.  A call  *)
(* on an object and rules that an enclosing call is already working on     *)
(* repeats that call's work without end: Python raises RecursionError.     *)
(***************************************************************************)
BaseObjects == { "U", "C", "B", "G" }
OptionalObjects == { "M", "CR", "R" }

Class(obj) ==
    CASE obj = "U" -> "User"
      [] obj = "C" -> "BookClub"
      [] obj = "B" -> "Book"
      [] obj = "G" -> "Genre"
      [] obj = "M" -> "Membership"
      [] obj = "CR" -> "CurrentReading"
      [] obj = "R" -> "Review"

\* serialize_rules: '-a.b' is the path <<a, b>>
serialize_rules(class) ==
    CASE class = "User" ->
             { <<"book_clubs_created", "creator">>, <<"memberships", "user">>,
               <<"reviews", "user">> }
      [] class = "BookClub" ->
             { <<"creator", "book_clubs_created">>, <<"members", "book_club">>,
               <<"reviews", "book_club">> }
      [] class = "Book" ->
             { <<"genre", "books">>, <<"current_reading", "book">>, <<"reviews", "book">> }
      [] class = "Genre" -> { <<"books", "genre">> }
      [] class = "Membership" ->
             { <<"user", "memberships">>, <<"book_club", "members">> }
      [] class = "CurrentReading" ->
             { <<"book_club", "current_reading">>, <<"book", "current_reading">> }
      [] class = "Review" ->
             { <<"user", "reviews">>, <<"book", "reviews">>, <<"book_club", "reviews">> }

\* the relationship() attributes of each class
Relationships(class) ==
    CASE class = "User" -> { "book_clubs_created", "memberships", "reviews" }
      [] class = "BookClub" -> { "creator", "members", "current_reading", "reviews" }
      [] class = "Book" -> { "genre", "current_reading", "reviews" }
      [] class = "Genre" -> { "books" }
      [] class = "Membership" -> { "user", "book_club" }
      [] class = "CurrentReading" -> { "book_club", "book" }
      [] class = "Review" -> { "user", "book", "book_club" }

\* the objects attribute `key` of `obj` holds, in graph g
Related(g, obj, key) ==
    LET all ==
        CASE obj = "U" /\ key = "book_clubs_created" -> { "C" }
          [] obj = "U" /\ key = "memberships" -> { "M" }
          [] obj = "U" /\ key = "reviews" -> { "R" }
          [] obj = "C" /\ key = "creator" -> { "U" }
          [] obj = "C" /\ key = "members" -> { "M" }
          [] obj = "C" /\ key = "current_reading" -> { "CR" }
          [] obj = "C" /\ key = "reviews" -> { "R" }
          [] obj = "B" /\ key = "genre" -> { "G" }
          [] obj = "B" /\ key = "current_reading" -> { "CR" }
          [] obj = "B" /\ key = "reviews" -> { "R" }
          [] obj = "G" /\ key = "books" -> { "B" }
          [] obj \in { "M", "R" } /\ key = "user" -> { "U" }
          [] obj \in { "M", "CR", "R" } /\ key = "book_club" -> { "C" }
          [] obj \in { "CR", "R" } /\ key = "book" -> { "B" }
    IN  all \cap g

\* Schema.is_included(key): no rule leaves the key out
IsIncluded(rules, key) == <<key>> \notin rules
\* Schema.fork(key): the rules below key
Fork(rules, key) == { Tail(r) : r \in { x \in rules : Len(x) > 1 /\ Head(x) = key } }
\* Schema.update(extend=value.serialize_rules) at the start of serialize_model
SchemaFor(rules, obj) == rules \cup serialize_rules(Class(obj))

Frame(obj, rules, key) == [obj |-> obj, rules |-> rules, key |-> key]
Top == stack[Len(stack)]
KeyPath == [i \in 1..(Len(stack) - 1) |-> stack[i + 1].key]

InitSerialize ==
    /\ graph = BaseObjects
    /\ serStatus = "idle"
    /\ stack = <<>>

\* an optional object is created, with its relationships set
AddObject ==
    \E obj \in OptionalObjects \ graph :
        /\ serStatus = "idle"
        /\ graph' = graph \cup { obj }
        /\ UNCHANGED <<serStatus, stack, exceptSerialize>>

\* obj.to_dict()
ToDict ==
    \E obj \in graph :
        /\ serStatus = "idle"
        /\ serStatus' = "running"
        /\ stack' = << Frame(obj, SchemaFor({}, obj), "") >>
        /\ UNCHANGED <<graph, exceptSerialize>>

\* serialize_model reaches an included relationship and serializes its value
Descend ==
    /\ serStatus = "running"
    /\ \E key \in Relationships(Class(Top.obj)) :
      \E child \in Related(graph, Top.obj, key) :
        LET f == Frame(child, SchemaFor(Fork(Top.rules, key), child), key) IN
        /\ IsIncluded(Top.rules, key)
        /\ UNCHANGED <<graph, exceptSerialize>>
        /\ IF \E i \in 1..Len(stack) : stack[i].obj = f.obj /\ stack[i].rules = f.rules
           THEN /\ serStatus' = "RecursionError"
                /\ stack' = Append(stack, f)
           ELSE /\ stack' = Append(stack, f)
                /\ UNCHANGED serStatus

\* a nested serialize_model returns its dict
Return ==
    /\ serStatus = "running"
    /\ Len(stack) > 1
    /\ stack' = SubSeq(stack, 1, Len(stack) - 1)
    /\ UNCHANGED <<graph, serStatus, exceptSerialize>>

\* to_dict returns
Finish ==
    /\ serStatus = "running"
    /\ Len(stack) = 1
    /\ serStatus' = "done"
    /\ UNCHANGED <<graph, stack, exceptSerialize>>

\* the caller goes on, with the dict or after the exception
Reset ==
    /\ serStatus \in { "done", "RecursionError" }
    /\ serStatus' = "idle"
    /\ stack' = <<>>
    /\ UNCHANGED <<graph, exceptSerialize>>

NextSerialize ==
    \/ AddObject
    \/ ToDict
    \/ Descend
    \/ Return
    \/ Finish
    \/ Reset

(***************************************************************************)
(* C6.  Serializing any entity of any object graph terminates: every       *)
(* relationship cycle reachable from the root is cut by an exclusion rule. *)
(* In particular serialize(BookClub) never contains                        *)
(* creator.book_clubs_created, and never expands                           *)
(* current_reading.book_club.current_reading.                              *)
(***************************************************************************)
HasPrefix(path, prefix) ==
    Len(path) >= Len(prefix) /\ SubSeq(path, 1, Len(prefix)) = prefix

C6_SerializationTerminates ==
    /\ serStatus # "RecursionError"
    /\ (stack # <<>> /\ stack[1].obj = "C")
           => /\ ~HasPrefix(KeyPath, <<"creator", "book_clubs_created">>)
              /\ ~HasPrefix(KeyPath, <<"current_reading", "book_club", "current_reading">>)

(***************************************************************************)
(* The specifications.                                                     *)
(***************************************************************************)
InitOthers ==
    /\ InitFields
    /\ InitReview
    /\ InitUsers
    /\ InitStore
    /\ InitSerialize

Init == InitOthers /\ InitPassword({ FALSE })
\* SpecPassword runs with either bcrypt
InitAnyBcrypt == InitOthers /\ InitPassword(BOOLEAN)

SpecFields == Init /\ [][NextFields]_vars
SpecReview == Init /\ [][NextReview]_vars
SpecPassword == InitAnyBcrypt /\ [][NextPassword]_vars
SpecUsers == Init /\ [][NextUsers]_vars
SpecStore == Init /\ [][NextStore]_vars
SpecSerialize == Init /\ [][NextSerialize]_vars

====
